---- MODULE Spec2Model ----
(***************************************************************************)
(* A model of millionaire-rs: the Stock price model and the Player ledger  *)
(* (src/src/lib.rs), the session loop run_game and the new-game set-up of  *)
(* main (src/src/main.rs), and the save-file operations (src/src/save.rs). *)
(*                                                                         *)
(* Every integer of the program is an i64.  The model keeps the width but  *)
(* scales it: an integer is IntBits wide, arithmetic wraps modulo          *)
(* 2^IntBits (a build without overflow checks) or panics (a build with     *)
(* overflow checks); a console number is a usize of the same width, cast   *)
(* to the signed type with `as`.                                           *)
(***************************************************************************)
EXTENDS Integers, Sequences, FiniteSets, TLC

VARIABLES
    overflow_checks,  \* the build: TRUE = arithmetic overflow panics, FALSE = it wraps
    game,             \* save::Game: stocks, player, goal, add_stock_cost, ...
    run_game,         \* the flag `run_game` of fn run_game
    pc,               \* the position of the session in fn run_game
    save_file,        \* what save::save wrote last to save_path (None before)
    last,             \* the last operation of the session: its name, inputs, result
    turns,            \* turns begun (executions of the body of `while run_game`)
    acts,             \* menu choices taken in the session, confirmed quits aside
    ended,            \* "End turn" actions taken
    varied,           \* executions of the `for s in stocks { s.vary() }` loop
    files             \* the save directory: file name -> content

vars == <<overflow_checks, game, run_game, pc, save_file, last, turns, acts,
          ended, varied, files>>

(***************************************************************************)
(* Bounds of the model.                                                    *)
(***************************************************************************)
\* width of the model's integers (the program's are 64 bits wide)
IntBits == 12
\* menu choices explored in one session (a confirmed "Quit game" is always open)
MaxActs == 3
\* stocks a game may hold (starting stocks plus added ones)
MaxStocks == 2

(***************************************************************************)
(* i64 / usize arithmetic at the model's width.                            *)
(***************************************************************************)
Modulus == 2 ^ IntBits
MinInt == -(2 ^ (IntBits - 1))
MaxInt == (2 ^ (IntBits - 1)) - 1

\* whether the exact result x is representable (no overflow)
Fits(x) == MinInt <= x /\ x <= MaxInt

\* two's complement wrap of the exact result x
Wrap(x) == ((x - MinInt) % Modulus) + MinInt

\* `u as i64` for a usize u
AsI64(u) == IF u > MaxInt THEN u - Modulus ELSE u

\* Rust's integer division: truncates toward zero (b > 0)
TruncDiv(a, b) == IF a >= 0 THEN a \div b ELSE -((-a) \div b)

(***************************************************************************)
(* rand: gen_range(lo..=hi) draws any integer of lo..hi.  The model draws  *)
(* the two ends of the range.                                              *)
(***************************************************************************)
gen_range(lo, hi) == IF lo > hi THEN {} ELSE {lo, hi}

(***************************************************************************)
(* Stock (lib.rs).                                                         *)
(***************************************************************************)
\* Stock::new
NewStock(id, name, value, variation) ==
    [direction |-> 0, id |-> id, initial_value |-> value, name |-> name,
     value |-> value, variation |-> variation]

\* a vary whose momentum is not damped
vary_undamped(s, random) ==
    LET direction == s.direction + random
        value == s.value + Wrap(direction)
    IN [stock |-> [s EXCEPT !.direction = Wrap(direction), !.value = Wrap(value)],
        overflow |-> ~Fits(direction) \/ ~Fits(value)]

\* Stock::vary with the draw `random`: the stock after it and whether an
\* addition or multiplication overflowed
vary(s, random) ==
    LET tripled == s.direction * 3
        damped == TruncDiv(Wrap(tripled), 5)
        direction == damped + random
        value == s.value + Wrap(direction)
    IN [stock |-> [s EXCEPT !.direction = Wrap(direction), !.value = Wrap(value)],
        overflow |-> ~Fits(tripled) \/ ~Fits(direction) \/ ~Fits(value)]

\* the draws Stock::vary can make for stock s
VaryDraws(s) == gen_range(-s.variation, s.variation)

\* Stock::reset
reset(s) == [s EXCEPT !.value = s.initial_value, !.direction = 0]

\* generate_name: "<first> <last>" with both parts drawn from fixed lists
FirstNames == {"Trading"}
LastNames == {"Incorporated"}
generate_name == {<<f, l>> : f \in FirstNames, l \in LastNames}

\* generate_stock: the stocks it can return
generate_stock(id, min_value, max_value, min_variation, max_variation, name) ==
    {NewStock(id, name, value, variation) :
        value \in gen_range(min_value, max_value),
        variation \in gen_range(min_variation, max_variation)}

(***************************************************************************)
(* Player (lib.rs).  A ledger operation yields the player after it, its    *)
(* result and whether one of its additions or multiplications overflowed.  *)
(***************************************************************************)
\* Player::new
NewPlayer(balance, income) ==
    [balance |-> balance, income |-> income, initial_income |-> income,
     stock_balances |-> [id \in {} |-> 0]]

\* HashMap::insert
Insert(m, k, v) == [x \in (DOMAIN m) \cup {k} |-> IF x = k THEN v ELSE m[x]]

\* Player::stock_balance
stock_balance(p, stock) ==
    IF stock.id \in DOMAIN p.stock_balances THEN p.stock_balances[stock.id] ELSE 0

\* buy_stock with the balance charged before the check of the funds
buy_stock_charging_first(p, stock, amount) ==
    LET product == stock.value * amount
        cost == Wrap(product)
        charged == [p EXCEPT !.balance = Wrap(p.balance - cost)]
    IN IF p.balance < cost
       THEN [player |-> charged, result |-> "Err", overflow |-> ~Fits(product)]
       ELSE [player |-> [charged EXCEPT !.stock_balances =
                            Insert(@, stock.id, Wrap(stock_balance(p, stock) + amount))],
             result |-> "Ok",
             overflow |-> ~Fits(product) \/ ~Fits(p.balance - cost)
                            \/ ~Fits(stock_balance(p, stock) + amount)]

\* buy_stock with `<=` for `<`: a purchase that takes the whole balance fails
buy_stock_rejecting_exact(p, stock, amount) ==
    LET product == stock.value * amount
        cost == Wrap(product)
        balance == p.balance - cost
        shares == stock_balance(p, stock) + amount
    IN IF p.balance <= cost
       THEN [player |-> p, result |-> "Err", overflow |-> ~Fits(product)]
       ELSE [player |-> [p EXCEPT !.balance = Wrap(balance),
                                  !.stock_balances = Insert(@, stock.id, Wrap(shares))],
             result |-> "Ok",
             overflow |-> ~Fits(product) \/ ~Fits(balance) \/ ~Fits(shares)]

\* Player::buy_stock
buy_stock(p, stock, amount) ==
    LET product == stock.value * amount
        cost == Wrap(product)
        balance == p.balance - cost
        shares == stock_balance(p, stock) + amount
    IN IF p.balance < cost
       THEN [player |-> p, result |-> "Err", overflow |-> ~Fits(product)]
       ELSE [player |-> [p EXCEPT !.balance = Wrap(balance),
                                  !.stock_balances = Insert(@, stock.id, Wrap(shares))],
             result |-> "Ok",
             overflow |-> ~Fits(product) \/ ~Fits(balance) \/ ~Fits(shares)]

\* Player::sell_stock
sell_stock(p, stock, amount) ==
    LET bal == stock_balance(p, stock)
        shares == bal - amount
        product == stock.value * amount
        balance == p.balance + Wrap(product)
    IN IF bal < amount
       THEN [player |-> p, result |-> "Err", overflow |-> FALSE]
       ELSE [player |-> [p EXCEPT !.balance = Wrap(balance),
                                  !.stock_balances = Insert(@, stock.id, Wrap(shares))],
             result |-> "Ok",
             overflow |-> ~Fits(shares) \/ ~Fits(product) \/ ~Fits(balance)]


\* a reset_stock that pays the holder the stock's value for every share
reset_stock_refunding(p, stock) ==
    [p EXCEPT !.stock_balances = Insert(@, stock.id, 0),
              !.balance = Wrap(@ + stock.value * stock_balance(p, stock))]

\* Player::reset_stock
reset_stock(p, stock) == [p EXCEPT !.stock_balances = Insert(@, stock.id, 0)]

\* Player::collect_income
collect_income(p) ==
    LET balance == p.balance + p.income
    IN [player |-> [p EXCEPT !.balance = Wrap(balance)], result |-> "Ok",
        overflow |-> ~Fits(balance)]

\* Player::increase_income: the cost is ten times the initial income
increase_income(p) ==
    LET product == p.initial_income * 10
        cost == Wrap(product)
        income == p.income + p.initial_income
        balance == p.balance - cost
    IN IF cost > p.balance
       THEN [player |-> p, result |-> "Err", overflow |-> ~Fits(product)]
       ELSE [player |-> [p EXCEPT !.income = Wrap(income), !.balance = Wrap(balance)],
             result |-> "Ok",
             overflow |-> ~Fits(product) \/ ~Fits(income) \/ ~Fits(balance)]

\* Player::net_worth over the first n stocks: the sum and whether it overflowed
RECURSIVE net_worth_upto(_, _, _)
net_worth_upto(p, stocks, n) ==
    IF n = 0
    THEN [value |-> p.balance, overflow |-> FALSE]
    ELSE LET sofar == net_worth_upto(p, stocks, n - 1)
             product == stocks[n].value * stock_balance(p, stocks[n])
             result == sofar.value + Wrap(product)
         IN [value |-> Wrap(result),
             overflow |-> sofar.overflow \/ ~Fits(product) \/ ~Fits(result)]

\* Player::net_worth
net_worth(p, stocks) == net_worth_upto(p, stocks, Len(stocks))

\* Player::withdraw
withdraw(p, amount) ==
    LET balance == p.balance - amount
    IN IF p.balance < amount
       THEN [player |-> p, result |-> "Err", overflow |-> FALSE]
       ELSE [player |-> [p EXCEPT !.balance = Wrap(balance)], result |-> "Ok",
             overflow |-> ~Fits(balance)]

\* Player::deposit
deposit(p, amount) ==
    LET balance == p.balance + amount
    IN [player |-> [p EXCEPT !.balance = Wrap(balance)], result |-> "Ok",
        overflow |-> ~Fits(balance)]

(***************************************************************************)
(* Console input (main.rs).  number_input parses a usize; the callers cast *)
(* it with `as i64`.  The numbers typed in the model: small ones, the      *)
(* largest that stays positive, and the largest usize (-1 after the cast). *)
(***************************************************************************)
\* number_input at the "How much stock" prompts, cast as buy_stock/sell_stock get it
AmountInputs == {1, MaxInt, Modulus - 1}

\* Option<i64>: None is {}, Some(x) is {x}
Some(x) == {x}
None == {}
UnwrapOr(o, default) == IF o = None THEN default ELSE CHOOSE x \in o : TRUE

\* new_number: the usize typed, cast to i64
new_number(u) == AsI64(u)

\* the settings of main as "Edit variables" can leave them when "Play game!"
\* is chosen (each is a new_number; the two Options can also stay None)
GoalInputs == {10}
IncomeInputs == {10}
InitialBalanceInputs == {None, Some(100)}
AddStockCostInputs == {5, Modulus - 5}
StartingStocksInputs == {1}
IncomeUpgradeCostInputs == {None, Some(5)}

\* the bounds generate_stock is called with
MinValue == 10
MaxValue == 100
MinVariation == 10
MaxVariation == 100

\* the loop of "Play game!": n stocks, each generated with id = stocks.len()
RECURSIVE StartingStocks(_)
StartingStocks(n) ==
    IF n <= 0
    THEN {<<>>}
    ELSE {Append(stocks, stock) :
            stocks \in StartingStocks(n - 1),
            stock \in UNION {generate_stock(n - 1, MinValue, MaxValue, MinVariation,
                                            MaxVariation, name) : name \in generate_name}}

\* the Game that "Play game!" hands to run_game
NewGames ==
    {[stocks |-> stocks,
      player |-> NewPlayer(UnwrapOr(initial_balance, new_number(income)), new_number(income)),
      goal |-> new_number(goal),
      initial_income |-> new_number(income),
      add_stock_cost |-> new_number(add_stock_cost),
      income_upgrade_cost |-> UnwrapOr(income_upgrade_cost, Wrap(new_number(income) * 10))] :
        goal \in GoalInputs, income \in IncomeInputs,
        initial_balance \in InitialBalanceInputs,
        add_stock_cost \in AddStockCostInputs,
        income_upgrade_cost \in IncomeUpgradeCostInputs,
        stocks \in UNION {StartingStocks(new_number(n)) : n \in StartingStocksInputs}}

\* the save directory with no file in it (see the save operations below)
EmptyDirectory == [f \in {} |-> 0]

Init ==
    /\ overflow_checks \in BOOLEAN
    /\ game \in NewGames
    /\ run_game = TRUE
    /\ pc = "turn_start"
    /\ save_file = None
    /\ last = [op |-> "play_game", result |-> "Ok", stock |-> 0, amount |-> 0,
               before |-> game]
    /\ turns = 0
    /\ acts = 0
    /\ ended = 0
    /\ varied = 0
    /\ files = EmptyDirectory

(***************************************************************************)
(* The save file (save.rs).  serde_json writes the Game as a JSON object   *)
(* of its fields: an i64 as its decimal digits, a struct as an object of   *)
(* its fields, a Vec as an array, and a HashMap<i64, i64> as an object     *)
(* whose keys are the decimal digits of the i64 keys.  A JSON document is  *)
(* modelled as that tree, with every number as the sequence of characters  *)
(* written; a name (letters and one space) is written as it is.            *)
(***************************************************************************)
Digit == <<"0", "1", "2", "3", "4", "5", "6", "7", "8", "9">>

\* the digits of n >= 0, most significant first
RECURSIVE itoa(_)
itoa(n) == IF n < 10 THEN <<Digit[n + 1]>> ELSE Append(itoa(n \div 10), Digit[(n % 10) + 1])

\* an i64 written without its sign
to_decimal_dropping_sign(n) == IF n < 0 THEN itoa(-n) ELSE itoa(n)

\* an i64 as serde_json writes it
to_decimal(n) == IF n < 0 THEN <<"-">> \o itoa(-n) ELSE itoa(n)

\* the value of a digit character
DigitValue == [c \in {Digit[d] : d \in 1..10} |-> CHOOSE d \in 0..9 : Digit[d + 1] = c]

\* the number a sequence of digits stands for
RECURSIVE atoi(_)
atoi(digits) ==
    IF digits = <<>>
    THEN 0
    ELSE LET k == Len(digits)
         IN atoi(SubSeq(digits, 1, k - 1)) * 10 + DigitValue[digits[k]]

\* an i64 as serde_json reads it: None when the text is not a number or the
\* number is out of the range of i64
from_decimal(text) ==
    LET negative == text # <<>> /\ text[1] = "-"
        digits == IF negative THEN Tail(text) ELSE text
        n == IF negative THEN -atoi(digits) ELSE atoi(digits)
    IN IF /\ digits # <<>>
          /\ \A k \in 1..Len(digits) : digits[k] \in DOMAIN DigitValue
          /\ Fits(n)
       THEN Some(n)
       ELSE None

unwrap(o) == CHOOSE x \in o : TRUE

\* Serialize for Stock: an object of the six fields
serialize_stock(s) ==
    [direction |-> to_decimal(s.direction), id |-> to_decimal(s.id),
     initial_value |-> to_decimal(s.initial_value), name |-> s.name,
     value |-> to_decimal(s.value), variation |-> to_decimal(s.variation)]

\* Deserialize for Stock
deserialize_stock(o) ==
    LET direction == from_decimal(o.direction)
        id == from_decimal(o.id)
        initial_value == from_decimal(o.initial_value)
        value == from_decimal(o.value)
        variation == from_decimal(o.variation)
    IN IF None \in {direction, id, initial_value, value, variation}
       THEN None
       ELSE Some([direction |-> unwrap(direction), id |-> unwrap(id),
                  initial_value |-> unwrap(initial_value), name |-> o.name,
                  value |-> unwrap(value), variation |-> unwrap(variation)])

\* Serialize for HashMap<i64, i64>: the keys become strings
serialize_map(m) ==
    [key \in {to_decimal(k) : k \in DOMAIN m} |->
        to_decimal(m[CHOOSE k \in DOMAIN m : to_decimal(k) = key])]

\* Deserialize for HashMap<i64, i64>: the keys are parsed back
deserialize_map(o) ==
    IF \E key \in DOMAIN o : from_decimal(key) = None \/ from_decimal(o[key]) = None
    THEN None
    ELSE Some([k \in {unwrap(from_decimal(key)) : key \in DOMAIN o} |->
                 unwrap(from_decimal(o[CHOOSE key \in DOMAIN o :
                                          from_decimal(key) = Some(k)]))])

\* Serialize for Player
serialize_player(p) ==
    [balance |-> to_decimal(p.balance), income |-> to_decimal(p.income),
     initial_income |-> to_decimal(p.initial_income),
     stock_balances |-> serialize_map(p.stock_balances)]

\* Deserialize for Player
deserialize_player(o) ==
    LET balance == from_decimal(o.balance)
        income == from_decimal(o.income)
        initial_income == from_decimal(o.initial_income)
        stock_balances == deserialize_map(o.stock_balances)
    IN IF None \in {balance, income, initial_income, stock_balances}
       THEN None
       ELSE Some([balance |-> unwrap(balance), income |-> unwrap(income),
                  initial_income |-> unwrap(initial_income),
                  stock_balances |-> unwrap(stock_balances)])

\* serde_json::to_string of a Game
to_string(g) ==
    [stocks |-> [i \in 1..Len(g.stocks) |-> serialize_stock(g.stocks[i])],
     player |-> serialize_player(g.player),
     goal |-> to_decimal(g.goal),
     add_stock_cost |-> to_decimal(g.add_stock_cost),
     initial_income |-> to_decimal(g.initial_income),
     income_upgrade_cost |-> to_decimal(g.income_upgrade_cost)]

\* serde_json::from_str for a Game
from_str(o) ==
    LET stocks == [i \in 1..Len(o.stocks) |-> deserialize_stock(o.stocks[i])]
        player == deserialize_player(o.player)
        goal == from_decimal(o.goal)
        add_stock_cost == from_decimal(o.add_stock_cost)
        initial_income == from_decimal(o.initial_income)
        income_upgrade_cost == from_decimal(o.income_upgrade_cost)
    IN IF \/ None \in {player, goal, add_stock_cost, initial_income, income_upgrade_cost}
          \/ \E i \in 1..Len(stocks) : stocks[i] = None
       THEN None
       ELSE Some([stocks |-> [i \in 1..Len(stocks) |-> unwrap(stocks[i])],
                  player |-> unwrap(player),
                  goal |-> unwrap(goal),
                  add_stock_cost |-> unwrap(add_stock_cost),
                  initial_income |-> unwrap(initial_income),
                  income_upgrade_cost |-> unwrap(income_upgrade_cost)])

\* save::save: what it writes to the file at `path`
save(g) == to_string(g)

\* save::from_path on a file with the given content
from_path(content) == from_str(content)

(***************************************************************************)
(* The session loop run_game (main.rs).  One action per menu choice; the   *)
(* code between two prompts that the claims tell apart is cut at pc:       *)
(*   "turn_start"  top of `while run_game`: save, bankruptcy reset, win    *)
(*   "menu"        the in-turn menu                                        *)
(*   "vary"        after the inner loop: the stock variation loop          *)
(*   "won"         left by `break` after "You win!"                        *)
(*   "finished"    left because run_game is false                          *)
(*   "panicked"    the process aborted on an arithmetic overflow           *)
(***************************************************************************)
Record(op, result, stock, amount) ==
    [op |-> op, result |-> result, stock |-> stock, amount |-> amount, before |-> game]

\* an arithmetic overflow in a build with overflow checks aborts the process
Panic(op, stock, amount) ==
    /\ pc' = "panicked"
    /\ last' = Record(op, "panic", stock, amount)
    /\ UNCHANGED <<overflow_checks, game, run_game, save_file, turns, acts, ended,
                   varied, files>>

\* an in-turn action that returns to the menu with the player `player`
BackToMenu(op, result, stock, amount, player) ==
    /\ game' = [game EXCEPT !.player = player]
    /\ last' = Record(op, result, stock, amount)
    /\ acts' = acts + 1
    /\ UNCHANGED <<overflow_checks, run_game, pc, save_file, turns, ended, varied, files>>

InTurn == pc = "menu" /\ acts < MaxActs

\* the bankruptcy loop at the top of a turn, over the first n stocks
RECURSIVE BankruptcyReset(_, _)
BankruptcyReset(g, n) ==
    IF n = 0
    THEN g
    ELSE LET h == BankruptcyReset(g, n - 1)
             s == h.stocks[n]
         IN IF s.value <= 0
            THEN [h EXCEPT !.stocks[n] = reset(s), !.player = reset_stock(h.player, reset(s))]
            ELSE h

\* the win check with `>=` for `>`
WinsAtGoal(g) == net_worth(g.player, g.stocks).value >= g.goal

\* whether the win check of the turn start succeeds for game g
Wins(g) == net_worth(g.player, g.stocks).value > g.goal

\* a turn start that saves after the bankruptcy loop
StartTurnSavingAfterReset ==
    /\ pc = "turn_start"
    /\ LET g == BankruptcyReset(game, Len(game.stocks))
           worth == net_worth(g.player, g.stocks)
       IN /\ game' = g
          /\ save_file' = Some(save(g))
          /\ IF worth.overflow /\ overflow_checks
             THEN /\ pc' = "panicked"
                  /\ last' = Record("start_turn", "panic", 0, 0)
             ELSE /\ pc' = IF Wins(g) THEN "won" ELSE "menu"
                  /\ last' = Record("start_turn", "Ok", 0, 0)
    /\ turns' = turns + 1
    /\ UNCHANGED <<overflow_checks, run_game, acts, ended, varied, files>>

\* top of `while run_game`: save::save, the bankruptcy loop, the win check
StartTurn ==
    /\ pc = "turn_start"
    /\ save_file' = Some(save(game))
    /\ LET g == BankruptcyReset(game, Len(game.stocks))
           worth == net_worth(g.player, g.stocks)
       IN /\ game' = g
          /\ IF worth.overflow /\ overflow_checks
             THEN /\ pc' = "panicked"
                  /\ last' = Record("start_turn", "panic", 0, 0)
             ELSE /\ pc' = IF Wins(g) THEN "won" ELSE "menu"
                  /\ last' = Record("start_turn", "Ok", 0, 0)
    /\ turns' = turns + 1
    /\ UNCHANGED <<overflow_checks, run_game, acts, ended, varied, files>>

\* "Buy stocks": a stock of the menu and an amount
BuyStocks ==
    /\ InTurn
    /\ \E i \in 1..Len(game.stocks), u \in AmountInputs :
         LET r == buy_stock(game.player, game.stocks[i], AsI64(u))
         IN IF r.overflow /\ overflow_checks
            THEN Panic("buy_stock", i, AsI64(u))
            ELSE BackToMenu("buy_stock", r.result, i, AsI64(u), r.player)

\* "Sell stocks": a stock of the menu and an amount
SellStocks ==
    /\ InTurn
    /\ \E i \in 1..Len(game.stocks), u \in AmountInputs :
         LET r == sell_stock(game.player, game.stocks[i], AsI64(u))
         IN IF r.overflow /\ overflow_checks
            THEN Panic("sell_stock", i, AsI64(u))
            ELSE BackToMenu("sell_stock", r.result, i, AsI64(u), r.player)

\* "Buy stocks" or "Sell stocks" left with "0. Exit"
CancelStockMenu ==
    /\ InTurn
    /\ \E op \in {"buy_cancel", "sell_cancel"} :
         BackToMenu(op, "Ok", 0, 0, game.player)

\* "Increase income", confirmed
IncreaseIncome ==
    /\ InTurn
    /\ LET r == increase_income(game.player)
       IN IF r.overflow /\ overflow_checks
          THEN Panic("increase_income", 0, game.income_upgrade_cost)
          ELSE BackToMenu("increase_income", r.result, 0, game.income_upgrade_cost,
                          r.player)

\* "Increase income" or "Add a new stock", declined at the double check
DeclineDoubleCheck ==
    /\ InTurn
    /\ \E op \in {"increase_income_declined", "add_stock_declined"} :
         BackToMenu(op, "Ok", 0, 0, game.player)

\* "Add a new stock" with the result of withdraw ignored: the stock is
\* added whether or not the player could pay
AddStockUnpaid ==
    /\ InTurn
    /\ Len(game.stocks) < MaxStocks
    /\ LET r == withdraw(game.player, game.add_stock_cost)
       IN IF r.overflow /\ overflow_checks
          THEN Panic("add_stock", 0, game.add_stock_cost)
          ELSE \E name \in generate_name :
               \E stock \in generate_stock(Len(game.stocks), MinValue, MaxValue,
                                           MinVariation, MaxVariation, name) :
                 /\ game' = [game EXCEPT !.player = r.player,
                                         !.stocks = Append(@, stock)]
                 /\ last' = Record("add_stock", r.result, 0, game.add_stock_cost)
                 /\ acts' = acts + 1
                 /\ UNCHANGED <<overflow_checks, run_game, pc, save_file, turns,
                                ended, varied, files>>

\* "Add a new stock", confirmed
AddStock ==
    /\ InTurn
    /\ Len(game.stocks) < MaxStocks
    /\ LET r == withdraw(game.player, game.add_stock_cost)
       IN IF r.overflow /\ overflow_checks
          THEN Panic("add_stock", 0, game.add_stock_cost)
          ELSE IF r.result = "Err"
          THEN BackToMenu("add_stock", "Err", 0, game.add_stock_cost, r.player)
          ELSE \E name \in generate_name :
               \E stock \in generate_stock(Len(game.stocks), MinValue, MaxValue,
                                           MinVariation, MaxVariation, name) :
                 /\ game' = [game EXCEPT !.player = r.player,
                                         !.stocks = Append(@, stock)]
                 /\ last' = Record("add_stock", "Ok", 0, game.add_stock_cost)
                 /\ acts' = acts + 1
                 /\ UNCHANGED <<overflow_checks, run_game, pc, save_file, turns,
                                ended, varied, files>>

\* "Print net worth breakdown": net_worth is computed and printed
NetWorthBreakdown ==
    /\ InTurn
    /\ IF net_worth(game.player, game.stocks).overflow /\ overflow_checks
       THEN Panic("net_worth_breakdown", 0, 0)
       ELSE BackToMenu("net_worth_breakdown", "Ok", 0, 0, game.player)

\* "Quit game", declined at the double check
QuitDeclined ==
    /\ InTurn
    /\ BackToMenu("quit_declined", "Ok", 0, 0, game.player)

\* "End turn": collect_income, then `break`
EndTurn ==
    /\ InTurn
    /\ LET r == collect_income(game.player)
       IN IF r.overflow /\ overflow_checks
          THEN Panic("end_turn", 0, 0)
          ELSE /\ game' = [game EXCEPT !.player = r.player]
               /\ pc' = "vary"
               /\ last' = Record("end_turn", "Ok", 0, 0)
               /\ ended' = ended + 1
               /\ acts' = acts + 1
               /\ UNCHANGED <<overflow_checks, run_game, save_file, turns, varied,
                              files>>

\* "Quit game", confirmed: run_game = false, then `break`
QuitGame ==
    /\ pc = "menu"
    /\ run_game' = FALSE
    /\ pc' = "vary"
    /\ last' = Record("quit", "Ok", 0, 0)
    /\ UNCHANGED <<overflow_checks, game, save_file, turns, acts, ended, varied, files>>

\* the variation loop with every stock varied twice
VaryAllTwice(stocks, draws) ==
    [stocks |-> [i \in 1..Len(stocks) |->
                    vary(vary(stocks[i], draws[i]).stock, draws[i]).stock],
     overflow |-> \E i \in 1..Len(stocks) : vary(stocks[i], draws[i]).overflow]

\* the stocks after `for s in game.stocks.iter_mut() { s.vary() }` with the
\* draws `draws`, and whether a vary overflowed
VaryAll(stocks, draws) ==
    [stocks |-> [i \in 1..Len(stocks) |-> vary(stocks[i], draws[i]).stock],
     overflow |-> \E i \in 1..Len(stocks) : vary(stocks[i], draws[i]).overflow]

\* the draws the loop can make: one per stock
DrawsFor(stocks) ==
    {d \in [1..Len(stocks) -> UNION {VaryDraws(stocks[i]) : i \in 1..Len(stocks)}] :
        \A i \in 1..Len(stocks) : d[i] \in VaryDraws(stocks[i])}

\* the variation loop after the inner loop, then the test of `while run_game`
VaryStocks ==
    /\ pc = "vary"
    /\ \E draws \in DrawsFor(game.stocks) :
         LET r == VaryAll(game.stocks, draws)
         IN IF r.overflow /\ overflow_checks
            THEN Panic("vary", 0, 0)
            ELSE /\ game' = [game EXCEPT !.stocks = r.stocks]
                 /\ pc' = IF run_game THEN "turn_start" ELSE "finished"
                 /\ last' = Record("vary", "Ok", 0, 0)
                 /\ varied' = varied + 1
                 /\ UNCHANGED <<overflow_checks, run_game, save_file, turns, acts,
                                ended, files>>

Next ==
    \/ StartTurn
    \/ BuyStocks
    \/ SellStocks
    \/ CancelStockMenu
    \/ IncreaseIncome
    \/ DeclineDoubleCheck
    \/ AddStock
    \/ NetWorthBreakdown
    \/ QuitDeclined
    \/ EndTurn
    \/ QuitGame
    \/ VaryStocks

Spec == Init /\ [][Next]_vars

(***************************************************************************)
(* The claims.  Arithmetic in them is the program's: i64 sums and products *)
(* (Wrap of the exact result); a call that panicked returned nothing and   *)
(* is recorded with result "panic".                                        *)
(***************************************************************************)
Player == game.player
Before == last.before
Returned == last.result \in {"Ok", "Err"}

\* the stock the last buy or sell was about, as it was when the call was made
TradedStock == Before.stocks[last.stock]

\* C1: the balance is never negative, in every state of a session started
\* from a new game, with the amounts and settings the console can produce.
C1_BalanceNeverNegative == Player.balance >= 0

\* C2: the share count of every stock is never negative, and a stock the
\* player never traded (no entry in stock_balances) has share count 0.
C2_SharesNeverNegative ==
    \A i \in 1..Len(game.stocks) :
        /\ stock_balance(Player, game.stocks[i]) >= 0
        /\ game.stocks[i].id \notin DOMAIN Player.stock_balances
             => stock_balance(Player, game.stocks[i]) = 0

\* C3: a ledger operation (buy_stock, sell_stock, increase_income, withdraw)
\* that returned an error left balance, income and every share count as
\* they were before the call.
C3_FailedOperationChangesNothing ==
    (last.op \in {"buy_stock", "sell_stock", "increase_income", "add_stock"}
        /\ last.result = "Err")
    => /\ Player.balance = Before.player.balance
       /\ Player.income = Before.player.income
       /\ Player.stock_balances = Before.player.stock_balances

C3_Witness ==
    /\ last.op = "buy_stock"
    /\ last.result = "Err"
    /\ Before.player.balance > 0

\* C4: buy_stock with cost = stock.value * amount returns an error exactly
\* when balance < cost; a purchase whose cost equals the balance succeeds
\* and leaves balance 0; on success the balance decreases by cost, the
\* share count of that stock increases by amount, and no other share count
\* and no income changes.
C4_BuyStock ==
    (last.op = "buy_stock" /\ Returned)
    => LET p == Before.player
           cost == Wrap(TradedStock.value * last.amount)
       IN /\ (last.result = "Err") <=> (p.balance < cost)
          /\ (last.result = "Ok" /\ p.balance = cost) => Player.balance = 0
          /\ last.result = "Ok" =>
               /\ Player.balance = Wrap(p.balance - cost)
               /\ stock_balance(Player, TradedStock)
                    = Wrap(stock_balance(p, TradedStock) + last.amount)
               /\ \A i \in 1..Len(game.stocks) :
                    game.stocks[i].id # TradedStock.id
                      => stock_balance(Player, game.stocks[i])
                           = stock_balance(p, game.stocks[i])
               /\ DOMAIN Player.stock_balances
                    = DOMAIN p.stock_balances \cup {TradedStock.id}
               /\ Player.income = p.income
               /\ Player.initial_income = p.initial_income

C4_Witness ==
    /\ last.op = "buy_stock"
    /\ last.result = "Ok"
    /\ last.amount > 0
    /\ Before.player.balance = TradedStock.value * last.amount
    /\ Player.balance = 0

\* C5: increase_income charges the configured upgrade cost: it returns an
\* error exactly when balance < income_upgrade_cost, and on success income
\* increases by initial_income and balance decreases by income_upgrade_cost.
C5_IncreaseIncomeChargesUpgradeCost ==
    (last.op = "increase_income" /\ Returned)
    => LET p == Before.player
           upgrade_cost == Before.income_upgrade_cost
       IN /\ (last.result = "Err") <=> (p.balance < upgrade_cost)
          /\ last.result = "Ok" =>
               /\ Player.income = Wrap(p.income + p.initial_income)
               /\ Player.balance = Wrap(p.balance - upgrade_cost)

\* C6: buy/sell round trip: whenever balance >= value * amount, buy_stock
\* followed by sell_stock of the same stock and amount at the same price
\* both succeed and return the balance and the share count of that stock
\* to their values before the buy.  (A step from the state after the buy,
\* where `last` is the buy, to the state after the sell.)
C6_BuySellRoundTrip ==
    [][(/\ last.op = "buy_stock"
        /\ Before.player.balance >= TradedStock.value * last.amount
        /\ last'.op = "sell_stock"
        /\ last'.stock = last.stock
        /\ last'.amount = last.amount
        /\ game.stocks[last.stock].value = TradedStock.value)
       => /\ last.result = "Ok"
          /\ last'.result = "Ok"
          /\ game'.player.balance = Before.player.balance
          /\ stock_balance(game'.player, TradedStock)
               = stock_balance(Before.player, TradedStock)]_vars

\* the stocks of the game before the step are, one by one, the same after it
StocksKept == \A i \in 1..Len(game.stocks) : game'.stocks[i] = game.stocks[i]

\* every stock of the game took exactly one vary() in the step: its new
\* momentum is the old one damped (times 3, divided by 5, truncating) plus
\* a draw within the variation bound, and its value grew by the new momentum
EachVariedOnce ==
    /\ Len(game'.stocks) = Len(game.stocks)
    /\ \A i \in 1..Len(game.stocks) :
         LET damped == TruncDiv(Wrap(game.stocks[i].direction * 3), 5)
             direction == game'.stocks[i].direction
             random == Wrap(direction - damped)
         IN /\ random \in (-game.stocks[i].variation)..game.stocks[i].variation
            /\ game'.stocks[i] =
                 [game.stocks[i] EXCEPT !.direction = direction,
                                        !.value = Wrap(game.stocks[i].value + direction)]

\* the stock variation step, entered only after one of the actions `exits`:
\* no menu action, and no turn start, varies a stock; the step comes right
\* after such an action, varies every stock once, and leads to the next
\* turn start (or the end of the session)
VariationStep(exits) ==
    /\ pc = "menu" => StocksKept
    /\ pc = "turn_start" =>
         \A i \in 1..Len(game.stocks) :
           game'.stocks[i] \in {game.stocks[i], reset(game.stocks[i])}
    /\ pc' = "vary" => (pc = "menu" /\ last'.op \in exits)
    /\ (last'.op \in exits /\ last'.result = "Ok") => pc' = "vary"
    /\ pc = "vary" =>
         \/ pc' = "panicked" /\ overflow_checks /\ game' = game
         \/ pc' \in {"turn_start", "finished"} /\ EachVariedOnce

\* C7 as claimed: the stock variation step runs exactly once per completed
\* turn for every stock, only after the End-Turn action (after income is
\* collected) and before the next turn's bankruptcy check, never during
\* the in-turn actions.
C7_VariesOnlyAfterEndTurn == [][VariationStep({"end_turn"})]_vars

\* C7 as amended: the stock variation step runs exactly once for every
\* stock each time the in-turn loop is left, by End turn (after income is
\* collected) or by a confirmed Quit, before the next turn start, and never
\* during the in-turn actions.
C7_VariesAfterEndTurnOrQuit == [][VariationStep({"end_turn", "quit"})]_vars

C7_Witness ==
    /\ pc = "finished"
    /\ last.op = "vary"
    /\ ended = 1
    /\ varied = 2
    /\ \E i \in 1..Len(game.stocks) : game.stocks[i] # Before.stocks[i]

\* the net worth: balance plus the sum over the game's stocks of current
\* value times held shares (as an i64)
RECURSIVE HoldingsWorth(_, _)
HoldingsWorth(g, ids) ==
    IF ids = {}
    THEN 0
    ELSE LET i == CHOOSE j \in ids : TRUE
         IN g.stocks[i].value * stock_balance(g.player, g.stocks[i])
              + HoldingsWorth(g, ids \ {i})
NetWorth(g) == Wrap(g.player.balance + HoldingsWorth(g, 1..Len(g.stocks)))

\* C8: the session enters Won exactly when, at the start of a turn after
\* the bankruptcy reset, net worth > goal: a turn start with net worth
\* above the goal wins, one with net worth at or below it goes on to the
\* menu, and no step but a turn start enters Won (a net worth that passes
\* the goal in the middle of a turn does not end the game).
C8_WonAtTurnStartAboveGoal ==
    [][/\ (pc' = "won" /\ pc # "won") =>
            (pc = "turn_start" /\ NetWorth(game') > game'.goal)
       /\ (pc = "turn_start" /\ pc' = "menu") => NetWorth(game') <= game'.goal
       /\ pc = "turn_start" => pc' \in {"won", "menu", "panicked"}
       /\ pc = "won" => pc' = "won"]_vars

C8_Witness ==
    /\ pc = "won"
    /\ turns = 2
    /\ NetWorth(game) > game.goal
    /\ NetWorth(Before) > game.goal

\* C9: the stock at position i of the stock sequence has identifier i
\* (positions from 0); "Add a new stock" appends one stock, with identifier
\* the previous length, only when withdraw(add_stock_cost) succeeded; when
\* the withdrawal fails, the stock sequence and the balance are unchanged.
C9_StockIdsArePositions ==
    /\ \A i \in 1..Len(game.stocks) : game.stocks[i].id = i - 1
    /\ (last.op = "add_stock" /\ Returned) =>
         IF Before.player.balance < Before.add_stock_cost
         THEN /\ last.result = "Err"
              /\ game.stocks = Before.stocks
              /\ Player.balance = Before.player.balance
         ELSE /\ last.result = "Ok"
              /\ Len(game.stocks) = Len(Before.stocks) + 1
              /\ SubSeq(game.stocks, 1, Len(Before.stocks)) = Before.stocks
              /\ game.stocks[Len(game.stocks)].id = Len(Before.stocks)
              /\ Player.balance = Wrap(Before.player.balance - Before.add_stock_cost)

C9_Witness ==
    /\ last.op = "add_stock"
    /\ last.result = "Ok"
    /\ Before.add_stock_cost > 0
    /\ Len(game.stocks) = 2
    /\ game.stocks[2].id = 1

(***************************************************************************)
(* The save directory (save.rs) and "Manage saves" (main.rs).  A file name *)
(* is a sequence of characters; the directory maps the names of its files  *)
(* to their contents.  All paths are in the one save directory, so a path  *)
(* is its file name.                                                       *)
(***************************************************************************)
\* operations on the save directory explored in one run
MaxSaveOps == 2
\* length of a name typed at "What will the new name of the save be?"
MaxNameLen == 2

Suffix == <<".", "s", "a", "v", "e", ".", "j", "s", "o", "n">>
CopyPrefix == <<"C", "o", "p", "y", " ", "o", "f", " ">>
Whitespace == {" ", "\n"}
NameChars == {"a", " "}

\* str::trim: leading and trailing whitespace removed
RECURSIVE trim_start(_)
trim_start(str) ==
    IF str # <<>> /\ Head(str) \in Whitespace THEN trim_start(Tail(str)) ELSE str
RECURSIVE trim_end(_)
trim_end(str) ==
    IF str # <<>> /\ str[Len(str)] \in Whitespace
    THEN trim_end(SubSeq(str, 1, Len(str) - 1))
    ELSE str
trim(str) == trim_end(trim_start(str))

\* str::ends_with
ends_with(str, suffix) ==
    /\ Len(str) >= Len(suffix)
    /\ SubSeq(str, Len(str) - Len(suffix) + 1, Len(str)) = suffix

\* saves_in_folder: the paths of the saves it lists
saves_in_folder(dir) == {f \in DOMAIN dir : ends_with(f, Suffix)}

\* fs::rename / fs::copy of an existing file onto a free or taken name
Moved(dir, from, to) ==
    [f \in ((DOMAIN dir) \ {from}) \cup {to} |-> IF f = to THEN dir[from] ELSE dir[f]]
Copied(dir, from, to) ==
    [f \in (DOMAIN dir) \cup {to} |-> IF f = to THEN dir[from] ELSE dir[f]]

\* save::rename without the check that the new name is free
rename_overwriting(dir, path, name) ==
    IF trim(name) = <<>>
    THEN [files |-> dir, result |-> "EmptyFileName"]
    ELSE IF path \notin DOMAIN dir
    THEN [files |-> dir, result |-> "IoError"]
    ELSE [files |-> Moved(dir, path, trim(name) \o Suffix), result |-> "Ok"]

\* save::rename: the directory after it and its result
rename(dir, path, name) ==
    LET trimmed == trim(name)
        new_path == trimmed \o Suffix
    IN IF trimmed = <<>>
       THEN [files |-> dir, result |-> "EmptyFileName"]
       ELSE IF new_path \in DOMAIN dir
       THEN [files |-> dir, result |-> "AlreadyExists"]
       ELSE IF path \notin DOMAIN dir
       THEN [files |-> dir, result |-> "IoError"]
       ELSE [files |-> Moved(dir, path, new_path), result |-> "Ok"]

\* save::copy
copy(dir, path) ==
    IF path \notin DOMAIN dir
    THEN [files |-> dir, result |-> "IoError"]
    ELSE [files |-> Copied(dir, path, CopyPrefix \o path), result |-> "Ok"]

\* save::delete
delete(dir, path) ==
    IF path \notin DOMAIN dir
    THEN [files |-> dir, result |-> "IoError"]
    ELSE [files |-> [f \in (DOMAIN dir) \ {path} |-> dir[f]], result |-> "Ok"]

\* the lines read_line can return at the rename prompt: up to MaxNameLen
\* characters, with the newline that ends the line or (at end of input) without
RECURSIVE Strings(_)
Strings(n) ==
    IF n = 0
    THEN {<<>>}
    ELSE Strings(n - 1) \cup {Append(str, c) : str \in Strings(n - 1), c \in NameChars}
TypedNames == Strings(MaxNameLen) \cup {Append(str, "\n") : str \in Strings(MaxNameLen)}

\* make_path: a file name made of the local time (two moments here)
Timestamps == {<<"1">>, <<"2">>}
make_path == {time \o Suffix : time \in Timestamps}

\* what a save file can hold: the JSON text of a game, by name
Contents == {"game A", "game B"}

\* the main menu, no game running, with saves of earlier sessions in the
\* directory
InitSaves ==
    /\ overflow_checks = FALSE
    /\ game = None
    /\ run_game = FALSE
    /\ pc = "main_menu"
    /\ save_file = None
    /\ turns = 0
    /\ acts = 0
    /\ ended = 0
    /\ varied = 0
    /\ \E paths \in (SUBSET make_path) \ {{}} : files \in [paths -> Contents]
    /\ last = [op |-> "main_menu", result |-> "Ok", path |-> <<>>, new_name |-> <<>>,
               before |-> files]

SaveOp(op, path, new_name, r) ==
    /\ files' = r.files
    /\ last' = [op |-> op, result |-> r.result, path |-> path, new_name |-> new_name,
                before |-> files]
    /\ acts' = acts + 1
    /\ UNCHANGED <<overflow_checks, game, run_game, pc, save_file, turns, ended, varied>>

ManagingSaves == pc = "main_menu" /\ acts < MaxSaveOps

\* "Manage saves", "Rename save"
RenameSave ==
    /\ ManagingSaves
    /\ \E path \in saves_in_folder(files), new_name \in TypedNames :
         SaveOp("rename", path, new_name, rename(files, path, new_name))

\* "Manage saves", "Copy save"
CopySave ==
    /\ ManagingSaves
    /\ \E path \in saves_in_folder(files) : SaveOp("copy", path, <<>>, copy(files, path))

\* "Manage saves", "Delete save"
DeleteSave ==
    /\ ManagingSaves
    /\ \E path \in saves_in_folder(files) : SaveOp("delete", path, <<>>, delete(files, path))

NextSaves == RenameSave \/ CopySave \/ DeleteSave

SpecSaves == InitSaves /\ [][NextSaves]_vars

\* `name` with its leading and trailing whitespace removed is `trimmed`
IsTrimOf(trimmed, name) ==
    /\ \E i \in 0..Len(name), j \in 0..Len(name) :
         /\ i + Len(trimmed) + j = Len(name)
         /\ \A k \in 1..i : name[k] \in Whitespace
         /\ \A k \in 1..j : name[Len(name) - j + k] \in Whitespace
         /\ \A k \in 1..Len(trimmed) : name[i + k] = trimmed[k]
    /\ trimmed # <<>> => (trimmed[1] \notin Whitespace
                          /\ trimmed[Len(trimmed)] \notin Whitespace)

\* the directory `dir` with the file `path` moved to `target` and nothing
\* else changed is `after`
MovedTo(dir, path, target, after) ==
    /\ path \notin DOMAIN after
    /\ DOMAIN after = ((DOMAIN dir) \ {path}) \cup {target}
    /\ after[target] = dir[path]
    /\ \A f \in (DOMAIN dir) \ {path} : after[f] = dir[f]

\* rename as the claim has it, the new file being `stem` + ".save.json"
RenameContract(stem) ==
    last.op = "rename" =>
      IF \A k \in 1..Len(last.new_name) : last.new_name[k] \in Whitespace
      THEN last.result = "EmptyFileName" /\ files = last.before
      ELSE IF (stem \o Suffix) \in DOMAIN last.before
      THEN last.result = "AlreadyExists" /\ files = last.before
      ELSE /\ last.result = "Ok"
           /\ MovedTo(last.before, last.path, stem \o Suffix, files)

\* C10 as claimed: rename(path, new_name) fails with EmptyFileName when the
\* trimmed new_name is empty and with AlreadyExists when a file named
\* new_name + ".save.json" exists, the directory being unchanged in both
\* cases; otherwise the file is moved to new_name + ".save.json": the old
\* name disappears, the content is kept and no other save is affected.
C10_RenameToNewName == RenameContract(last.new_name)

\* C10 as amended: the same with the trimmed new_name in the file name:
\* AlreadyExists when trim(new_name) + ".save.json" exists, and otherwise
\* the file is moved to trim(new_name) + ".save.json".
C10_RenameToTrimmedName ==
    \A stem \in Strings(MaxNameLen) :
        (last.op = "rename" /\ IsTrimOf(stem, last.new_name)) => RenameContract(stem)

C10_Witness ==
    /\ last.op = "rename"
    /\ last.result = "Ok"
    /\ last.new_name = <<" ", "a", "\n">>
    /\ (<<"a">> \o Suffix) \in DOMAIN files
    /\ Cardinality(DOMAIN files) = 2

(***************************************************************************)
(* The top of a turn.                                                      *)
(***************************************************************************)
\* the game right after a turn start is the game before it with every stock
\* of value <= 0 reset (value back to the initial value, momentum 0) and
\* its shares set to 0, and with everything else as it was
ResetsBankruptStocks(before, after) ==
    /\ Len(after.stocks) = Len(before.stocks)
    /\ after.player.balance = before.player.balance
    /\ after.player.income = before.player.income
    /\ after.player.initial_income = before.player.initial_income
    /\ \A i \in 1..Len(before.stocks) :
         LET s == before.stocks[i]
         IN IF s.value <= 0
            THEN /\ after.stocks[i] = [s EXCEPT !.value = s.initial_value,
                                                !.direction = 0]
                 /\ stock_balance(after.player, s) = 0
            ELSE /\ after.stocks[i] = s
                 /\ stock_balance(after.player, s) = stock_balance(before.player, s)

\* C12: at the start of every turn each stock whose value is <= 0 gets its
\* value set back to its initial value and its momentum set to 0, and the
\* player's share count for it is set to 0 with the balance unchanged;
\* stocks of value > 0 and the holdings in them are untouched.  This comes
\* before the win check (which sees the game after the reset) and before
\* any player action of the turn (no stock of the menu has value <= 0).
C12_BankruptcyResetAtTurnStart ==
    /\ last.op = "start_turn" =>
         /\ ResetsBankruptStocks(Before, game)
         /\ Returned => (pc = "won" <=> NetWorth(game) > game.goal)
    /\ pc = "menu" => \A i \in 1..Len(game.stocks) : game.stocks[i].value > 0

C12_Witness ==
    /\ last.op = "start_turn"
    /\ pc = "menu"
    /\ \E i \in 1..Len(Before.stocks) :
         /\ Before.stocks[i].value <= 0
         /\ Before.stocks[i].direction # 0
         /\ stock_balance(Before.player, Before.stocks[i]) > 0
         /\ game.stocks[i].value = game.stocks[i].initial_value
         /\ stock_balance(Player, game.stocks[i]) = 0
    /\ Player.balance = Before.player.balance

\* C13: the save file is written only at the start of a turn, before that
\* turn's bankruptcy reset and win check: a turn start writes the game as
\* it stands when the turn starts, and no other step writes the file.  So
\* after a session the file holds the game as it stood at the start of the
\* last turn begun: it can hold stocks of value <= 0, and nothing done in a
\* turn that is ended by Quit, nor the variation after Quit, is in it.
C13_SavedOnlyAtTurnStart ==
    [][/\ pc = "turn_start" => save_file' = Some(save(game))
       /\ pc # "turn_start" => save_file' = save_file]_vars

C13_Witness ==
    /\ pc = "finished"
    /\ last.op = "vary"
    /\ turns = 2
    /\ LET saved == unwrap(from_path(unwrap(save_file)))
       IN /\ \E i \in 1..Len(saved.stocks) : saved.stocks[i].value <= 0
          /\ Len(saved.stocks) < Len(game.stocks)
          /\ saved.player.balance > Player.balance
          /\ \E i \in 1..Len(saved.stocks) :
               game.stocks[i].direction # saved.stocks[i].direction

(***************************************************************************)
(* Saving and loading: sessions that are left by "Quit game" and taken up  *)
(* again by "Load save".  run_game is given any Game a save file can hold. *)
(***************************************************************************)
MaxLoads == 1

\* value and momentum of the stocks of the games that are saved
StockStates == {<<10, 0>>, <<20, 10>>, <<0, -10>>, <<-7, -12>>}

\* the stock sequences of at most n stocks, the stock at position i with id i
RECURSIVE SavedStocks(_)
SavedStocks(n) ==
    IF n = 0
    THEN {<<>>}
    ELSE SavedStocks(n - 1) \cup
         {Append(stocks, [NewStock(n - 1, name, MinValue, MinVariation)
                            EXCEPT !.value = state[1], !.direction = state[2]]) :
            stocks \in {s \in SavedStocks(n - 1) : Len(s) = n - 1},
            state \in StockStates, name \in generate_name}

\* the share mappings over identifiers of the stocks
SavedShares(stocks) ==
    UNION {[ids -> {0, 3}] : ids \in SUBSET {stocks[i].id : i \in 1..Len(stocks)}}

\* the games that are saved
SavedGames ==
    UNION {{[stocks |-> stocks,
             player |-> [NewPlayer(balance, 10) EXCEPT !.stock_balances = shares],
             goal |-> goal,
             initial_income |-> 10,
             add_stock_cost |-> new_number(add_stock_cost),
             income_upgrade_cost |-> 100] :
               shares \in SavedShares(stocks),
               balance \in {0, MaxInt}, goal \in GoalInputs,
               add_stock_cost \in AddStockCostInputs} :
            stocks \in SavedStocks(MaxStocks)}

InitPersist ==
    /\ overflow_checks \in BOOLEAN
    /\ game \in SavedGames
    /\ run_game = TRUE
    /\ pc = "turn_start"
    /\ save_file = None
    /\ last = [op |-> "play_game", result |-> "Ok", stock |-> 0, amount |-> 0,
               before |-> game]
    /\ turns = 0
    /\ acts = 0
    /\ ended = 0
    /\ varied = 0
    /\ files = EmptyDirectory

\* "Load save" of the main menu, after run_game has returned: the game read
\* from the file by save::from_path is handed to run_game; a file that does
\* not parse panics
LoadSave ==
    /\ pc \in {"finished", "won"}
    /\ turns <= MaxLoads
    /\ save_file # None
    /\ LET loaded == from_path(unwrap(save_file))
       IN IF loaded = None
          THEN /\ pc' = "panicked"
               /\ last' = Record("load_save", "panic", 0, 0)
               /\ UNCHANGED <<game, run_game>>
          ELSE /\ pc' = "turn_start"
               /\ game' = unwrap(loaded)
               /\ run_game' = TRUE
               /\ last' = Record("load_save", "Ok", 0, 0)
    /\ UNCHANGED <<overflow_checks, save_file, turns, acts, ended, varied, files>>

NextPersist == StartTurn \/ QuitGame \/ VaryStocks \/ LoadSave

SpecPersist == InitPersist /\ [][NextPersist]_vars

\* C11: persistence round-trips exactly: saving a Game and loading it back
\* yields a Game equal to it in every field (the stocks with their id,
\* name, initial value, value, variation bound and momentum, the player's
\* balance, income, initial income and share mapping, and the goal and the
\* three cost settings).  Stated of the file the turn start wrote for the
\* game it started with, for games of zero or more stocks.
C11_SaveLoadRoundTrip ==
    last.op = "start_turn" =>
      /\ save_file # None
      /\ from_path(unwrap(save_file)) = Some(Before)

C11_Witness ==
    /\ last.op = "start_turn"
    /\ turns = 2
    /\ Len(Before.stocks) = 2
    /\ Before.stocks[1].value < 0
    /\ unwrap(save_file).stocks[1].value = <<"-", "7">>
    /\ Before.stocks[2].direction < 0
    /\ Before.player.balance = MaxInt
    /\ stock_balance(Before.player, Before.stocks[2]) = 3
    /\ unwrap(save_file).player.stock_balances[<<"1">>] = <<"3">>
    /\ from_path(unwrap(save_file)) = Some(Before)

(***************************************************************************)
(* The price model on its own: one stock, any sequence of Stock::vary and  *)
(* Stock::reset calls, with every draw of the range.                       *)
(***************************************************************************)
MaxPrice == 60

\* the variation bounds of the stocks that are varied
VariationBounds == {0, 1, 4, MinVariation}

\* the range -variation..=variation of Stock::vary
VaryRange(s) == (-s.variation)..s.variation

InitPrice ==
    /\ overflow_checks \in BOOLEAN
    /\ \E variation \in VariationBounds, name \in generate_name :
         game = [stocks |-> <<NewStock(0, name, MinValue, variation)>>]
    /\ run_game = TRUE
    /\ pc = "vary"
    /\ save_file = None
    /\ last = [op |-> "new", result |-> "Ok", stock |-> 1, amount |-> 0,
               before |-> game]
    /\ turns = 0
    /\ acts = 0
    /\ ended = 0
    /\ varied = 0
    /\ files = EmptyDirectory

\* Stock::vary on the stock, while its value is within MaxPrice of 0
VaryStock ==
    /\ pc = "vary"
    /\ game.stocks[1].value \in (-MaxPrice)..MaxPrice
    /\ \E random \in VaryRange(game.stocks[1]) :
         LET r == vary(game.stocks[1], random)
         IN IF r.overflow /\ overflow_checks
            THEN /\ pc' = "panicked"
                 /\ last' = Record("vary", "panic", 1, random)
                 /\ game' = game
            ELSE /\ pc' = pc
                 /\ last' = Record("vary", "Ok", 1, random)
                 /\ game' = [game EXCEPT !.stocks[1] = r.stock]
    /\ UNCHANGED <<overflow_checks, run_game, save_file, turns, acts, ended, varied, files>>

\* Stock::reset on the stock
ResetStock ==
    /\ pc = "vary"
    /\ game' = [game EXCEPT !.stocks[1] = reset(@)]
    /\ last' = Record("reset", "Ok", 1, 0)
    /\ UNCHANGED <<overflow_checks, run_game, pc, save_file, turns, acts, ended, varied,
                   files>>

NextPrice == VaryStock \/ ResetStock

SpecPrice == InitPrice /\ [][NextPrice]_vars

Abs(x) == IF x < 0 THEN -x ELSE x

\* C14: the damped price model keeps momentum bounded: for a stock with
\* variation bound V >= 0, starting from momentum 0, after any sequence of
\* vary() and reset() calls the momentum satisfies 2 * |momentum| <= 5 * V,
\* and a vary() changes the value by the new momentum, so by no more than
\* 5V/2.
C14_MomentumBounded ==
    LET s == game.stocks[1]
    IN /\ 2 * Abs(s.direction) <= 5 * s.variation
       /\ (last.op = "vary" /\ last.result = "Ok") =>
            /\ s.value - Before.stocks[1].value = s.direction
            /\ 2 * Abs(s.value - Before.stocks[1].value) <= 5 * s.variation

C14_Witness ==
    /\ last.op = "vary"
    /\ game.stocks[1].variation = MinVariation
    /\ game.stocks[1].direction = 23
    /\ Before.stocks[1].direction = 23
    /\ game.stocks[1].value = Before.stocks[1].value + 23

====
